---- MODULE Spec2Model ----
(***************************************************************************)
(* Hamster Wheel Literal Matcher build code (src/hwlm/hwlm_build.cpp):     *)
(* hwlmBuild, hwlmSize and hwlmFloodProneSuffixLen.                        *)
(*                                                                         *)
(* hwlmBuild is followed statement by statement (pc is the line about to   *)
(* run), so that the order of the checks and of the builder call can be    *)
(* stated.  The two engine builders and the two engine size functions are  *)
(* collaborators that live outside this file; a builder is an input that   *)
(* returns either an empty bytecode_ptr or a payload together with its     *)
(* size.                                                                   *)
(***************************************************************************)
EXTENDS Integers, Sequences, FiniteSets, TLC

\* ---------------------------------------------------------------- bounds
MaxLits == 2
MaxLen == 2
MaxEng == 2

\* ------------------------------------------------------------- constants
\* 0xffffffffu in the source.  TLC's integers are 32-bit signed, so the
\* all-ones word is modelled by the largest value TLC represents; only
\* equality with it is ever tested.
RESERVED_ID == 2147483647
\* ~(size_t)0 in the source; modelled as above.
NO_LIMIT == 2147483647
\* Engine tags of hwlm_internal.h; only their being distinct, and distinct
\* from the initial engType 0, matters.
HWLM_ENGINE_NOOD == 16
HWLM_ENGINE_FDR == 12
CACHE_LINE == 64

\* A pointer is <<>> (nullptr) or <<object>>.
NULL == <<>>

\* ROUNDUP_CL(x): round up to a multiple of the cache line.
ROUNDUP_CL(x) == ((x + CACHE_LINE - 1) \div CACHE_LINE) * CACHE_LINE

\* -------------------------------------------------------------- inputs
\* sizeof(HWLM) is fixed by the build; the header file is not part of this
\* translation unit, so the model takes it from a set that has both an
\* aligned and an unaligned value.
HeaderSizes == {40, 64}

\* lit.s is a non-empty string (asserted at line 114); only its length is
\* read.  lit.msk is empty or not.  lit.groups is non-zero (line 138).
Strings == UNION {[1..n -> {"a"}] : n \in 1..MaxLen}
Masks == {<<>>, <<255>>}
Ids == {0, RESERVED_ID}
hwlmLiteral == [s : Strings, id : Ids, msk : Masks]
\* lits is non-empty (asserted at line 103).
Batches == UNION {[1..n -> hwlmLiteral] : n \in 1..MaxLits}

\* CompileContext: the grey-box limits and flags, and target_info.has_avx2().
CompileContext ==
    [allowNoodle : BOOLEAN, fdrAllowTeddy : BOOLEAN, has_avx2 : BOOLEAN,
     limitLiteralCount : {1, MaxLits},
     limitLiteralLength : {1, MaxLen},
     limitLiteralMatcherChars : {1, MaxLen + 1},
     limitLiteralMatcherSize : {1, MaxEng}]

\* What a builder may hand back: an empty bytecode_ptr, or a payload whose
\* bytecode_ptr size() is non-zero (asserted at line 163).  The payload
\* carries the size its engine's size function will report for it.
Payloads == [size : 1..MaxEng]
BuilderResults ==
    {[ptr |-> NULL, bytes |-> 0]} \cup {[ptr |-> <<p>>, bytes |-> p.size] : p \in Payloads}

\* Blobs handed to hwlmSize that hwlmBuild did not make: any tag, any
\* payload, including one whose size function reports zero.
ForeignBlobs == [type : {0, HWLM_ENGINE_NOOD, HWLM_ENGINE_FDR}, data : [size : 0..MaxEng]]

FloodCounts == {0, 1, 2, 48, 49, 96, 97, 200}

\* --------------------------------------------------------------- state
VARIABLES
    ndebug,       \* TRUE when built with NDEBUG (assertions compiled out)
    sizeofHWLM,   \* sizeof(HWLM) of the build
    pc,           \* position: "idle", a line of hwlmBuild, "done", "sized", "flood"
    lits, cc,     \* arguments of the current call
    i,            \* position of the range-for at line 113 (1-based)
    total_chars,
    engType, engSize, eng,
    invoked,      \* the engine builders called so far in this hwlmBuild
    thrown,       \* [what, line] of the exception or failed assertion, or NULL
    allocated,    \* sizes passed to make_bytecode_ptr<HWLM> in this call
    h,            \* the returned bytecode_ptr<HWLM>: NULL or <<blob>>
    sz,           \* last hwlmSize call: NULL or <<[h, ret, calls]>>
    fl            \* last hwlmFloodProneSuffixLen call: NULL or <<[n, ret]>>

vars == <<ndebug, sizeofHWLM, pc, lits, cc, i, total_chars, engType, engSize,
          eng, invoked, thrown, allocated, h, sz, fl>>

build == <<ndebug, sizeofHWLM>>
locals == <<i, total_chars, engType, engSize, eng, invoked, thrown, allocated, h>>

NoCc == [allowNoodle |-> FALSE, fdrAllowTeddy |-> FALSE, has_avx2 |-> FALSE,
         limitLiteralCount |-> 1, limitLiteralLength |-> 1,
         limitLiteralMatcherChars |-> 1, limitLiteralMatcherSize |-> 1]

Init ==
    /\ ndebug \in BOOLEAN
    /\ sizeofHWLM \in HeaderSizes
    /\ pc = "idle"
    /\ lits = <<>>
    /\ cc = NoCc
    /\ i = 0
    /\ total_chars = 0
    /\ engType = 0
    /\ engSize = 0
    /\ eng = NULL
    /\ invoked = <<>>
    /\ thrown = NULL
    /\ allocated = <<>>
    /\ h = NULL
    /\ sz = NULL
    /\ fl = NULL

\* ------------------------------------------------------------ hwlmBuild
\* Mutant: the supplementary mask is not looked at.
isNoodleable_nomask(ls, c) ==
    IF ~c.allowNoodle THEN FALSE
    ELSE IF Len(ls) # 1 THEN FALSE
    ELSE TRUE

isNoodleable(ls, c) ==
    IF ~c.allowNoodle THEN FALSE
    ELSE IF Len(ls) # 1 THEN FALSE
    ELSE IF Head(ls).msk # <<>> THEN FALSE
    ELSE TRUE

\* Mutant: the count check is off by one.
TooManyLiterals_off(ls, c) == Len(ls) > c.limitLiteralCount + 1
\* line 107
TooManyLiterals(ls, c) == Len(ls) > c.limitLiteralCount
\* line 116
LiteralTooLong(lit, c) == Len(lit.s) > c.limitLiteralLength
\* Mutant: the aggregate budget is exclusive.
TooManyChars_ge(total, c) == total >= c.limitLiteralMatcherChars
\* line 120
TooManyChars(total, c) == total > c.limitLiteralMatcherChars
\* Mutant: the id is compared with the wrong constant.
UsesReservedId_wrong(lit) == lit.id = RESERVED_ID - 1
\* line 126
UsesReservedId(lit) == lit.id = RESERVED_ID
\* Mutants: the compiled size limit is exclusive; the check is missing.
EngineTooBig_ge(size, c) == size >= c.limitLiteralMatcherSize
EngineTooBig_unchecked(size, c) == FALSE
\* line 164
EngineTooBig(size, c) == size > c.limitLiteralMatcherSize

Throw(what, line) ==
    /\ thrown' = <<[what |-> what, line |-> line]>>
    /\ pc' = "done"

\* Entry: the caller supplies the batch and the compile context.
hwlmBuild_enter ==
    /\ pc = "idle"
    /\ \E ls \in Batches, c \in CompileContext :
          /\ lits' = ls
          /\ cc' = c
    /\ pc' = "L107"
    /\ i' = 0
    /\ total_chars' = 0
    /\ engType' = 0
    /\ engSize' = 0
    /\ eng' = NULL
    /\ invoked' = <<>>
    /\ thrown' = NULL
    /\ allocated' = <<>>
    /\ h' = NULL
    /\ sz' = NULL
    /\ fl' = NULL
    /\ UNCHANGED build

\* Lines 106-112: the literal count check, then total_chars = 0.
hwlmBuild_count ==
    /\ pc = "L107"
    /\ IF TooManyLiterals(lits, cc)
       THEN /\ Throw("ResourceLimitError", 108)
            /\ UNCHANGED <<i, total_chars>>
       ELSE /\ pc' = "L113"
            /\ i' = 1
            /\ total_chars' = 0
            /\ UNCHANGED thrown
    /\ UNCHANGED <<build, lits, cc, engType, engSize, eng, invoked, allocated, h, sz, fl>>

\* Lines 113-130: one iteration of the loop over lits.
hwlmBuild_lit ==
    /\ pc = "L113"
    /\ i <= Len(lits)
    /\ LET lit == lits[i]
           total == total_chars + Len(lit.s)
       IN  IF LiteralTooLong(lit, cc)
           THEN /\ Throw("ResourceLimitError", 117)
                /\ UNCHANGED <<i, total_chars>>
           ELSE IF TooManyChars(total, cc)
           THEN /\ Throw("ResourceLimitError", 121)
                /\ total_chars' = total
                /\ UNCHANGED i
           ELSE IF UsesReservedId(lit)
           THEN /\ IF ndebug
                   THEN Throw("CompileError", 128)
                   ELSE Throw("assert", 127)
                /\ total_chars' = total
                /\ UNCHANGED i
           ELSE /\ total_chars' = total
                /\ i' = i + 1
                /\ UNCHANGED <<pc, thrown>>
    /\ UNCHANGED <<build, lits, cc, engType, engSize, eng, invoked, allocated, h, sz, fl>>

\* Line 130 -> 140: the loop is over.
hwlmBuild_validated ==
    /\ pc = "L113"
    /\ i > Len(lits)
    /\ pc' = "L140"
    /\ UNCHANGED <<build, lits, cc, locals, sz, fl>>

\* Lines 140-148: the noodle branch; noodBuildTable(lits.front()).
hwlmBuild_noodle ==
    /\ pc = "L140"
    /\ isNoodleable(lits, cc)
    /\ engType' = HWLM_ENGINE_NOOD
    /\ invoked' = Append(invoked, "noodBuildTable")
    /\ \E noodle \in BuilderResults :
          /\ engSize' = IF noodle.ptr # NULL THEN noodle.bytes ELSE engSize
          /\ eng' = noodle.ptr
    /\ pc' = "L159"
    /\ UNCHANGED <<build, lits, cc, i, total_chars, thrown, allocated, h, sz, fl>>

\* Lines 149-157: the FDR branch; fdrBuildTable(lits, make_small, ...).
hwlmBuild_fdr ==
    /\ pc = "L140"
    /\ ~isNoodleable(lits, cc)
    /\ engType' = HWLM_ENGINE_FDR
    /\ invoked' = Append(invoked, "fdrBuildTable")
    /\ \E fdr \in BuilderResults :
          /\ engSize' = IF fdr.ptr # NULL THEN fdr.bytes ELSE engSize
          /\ eng' = fdr.ptr
    /\ pc' = "L159"
    /\ UNCHANGED <<build, lits, cc, i, total_chars, thrown, allocated, h, sz, fl>>

\* Lines 159-173: empty result, compiled size check, allocation and copy.
hwlmBuild_package ==
    /\ pc = "L159"
    /\ IF eng = NULL
       THEN /\ h' = NULL
            /\ pc' = "done"
            /\ UNCHANGED <<thrown, allocated>>
       ELSE IF EngineTooBig(engSize, cc)
       THEN /\ Throw("ResourceLimitError", 165)
            /\ UNCHANGED <<h, allocated>>
       ELSE /\ allocated' = Append(allocated, ROUNDUP_CL(sizeofHWLM) + engSize)
            /\ h' = <<[type |-> engType, data |-> eng[1]]>>
            /\ pc' = "done"
            /\ UNCHANGED thrown
    /\ UNCHANGED <<build, lits, cc, i, total_chars, engType, engSize, eng, invoked, sz, fl>>

\* ------------------------------------------------------------- hwlmSize
\* noodSize / fdrSize: the engine's own account of its payload's size.
noodSize(n) == n.size
fdrSize(f) == f.size

\* Mutant: the header is counted without its cache-line padding.
hwlmSize_unaligned(b) ==
    LET calls == IF b.type = HWLM_ENGINE_NOOD THEN <<"noodSize">>
                 ELSE IF b.type = HWLM_ENGINE_FDR THEN <<"fdrSize">>
                 ELSE <<>>
        sizeOfEng == IF b.type = HWLM_ENGINE_NOOD THEN noodSize(b.data)
                     ELSE IF b.type = HWLM_ENGINE_FDR THEN fdrSize(b.data)
                     ELSE 0
    IN  [ret |-> IF sizeOfEng = 0 THEN 0 ELSE sizeOfEng + sizeofHWLM,
         calls |-> calls]

\* Mutant: the zero engine size is not intercepted.
hwlmSize_nozero(b) ==
    LET calls == IF b.type = HWLM_ENGINE_NOOD THEN <<"noodSize">>
                 ELSE IF b.type = HWLM_ENGINE_FDR THEN <<"fdrSize">>
                 ELSE <<>>
        sizeOfEng == IF b.type = HWLM_ENGINE_NOOD THEN noodSize(b.data)
                     ELSE IF b.type = HWLM_ENGINE_FDR THEN fdrSize(b.data)
                     ELSE 0
    IN  [ret |-> sizeOfEng + ROUNDUP_CL(sizeofHWLM), calls |-> calls]

\* hwlmSize(h): the value returned and the engine size functions called.
hwlmSize(b) ==
    LET calls == IF b.type = HWLM_ENGINE_NOOD THEN <<"noodSize">>
                 ELSE IF b.type = HWLM_ENGINE_FDR THEN <<"fdrSize">>
                 ELSE <<>>
        sizeOfEng == IF b.type = HWLM_ENGINE_NOOD THEN noodSize(b.data)
                     ELSE IF b.type = HWLM_ENGINE_FDR THEN fdrSize(b.data)
                     ELSE 0
    IN  [ret |-> IF sizeOfEng = 0 THEN 0 ELSE sizeOfEng + ROUNDUP_CL(sizeofHWLM),
         calls |-> calls]

\* hwlmSize on the blob the finished hwlmBuild returned.
hwlmSize_built ==
    /\ pc = "done"
    /\ h # NULL
    /\ sz' = <<[h |-> h[1], ret |-> hwlmSize(h[1]).ret, calls |-> hwlmSize(h[1]).calls]>>
    /\ pc' = "sized"
    /\ UNCHANGED <<build, lits, cc, locals, fl>>

\* hwlmSize on a blob of unknown provenance.
hwlmSize_foreign ==
    /\ pc = "idle"
    /\ \E b \in ForeignBlobs :
          sz' = <<[h |-> b, ret |-> hwlmSize(b).ret, calls |-> hwlmSize(b).calls]>>
    /\ pc' = "sized"
    /\ UNCHANGED <<build, lits, cc, locals, fl>>

\* ---------------------------------------------- hwlmFloodProneSuffixLen
\* Mutant: the FDR fallback is pushed up to 9 (the value the TODO weighs).
hwlmFloodProneSuffixLen_nine(numLiterals, c) ==
    IF c.allowNoodle /\ numLiterals <= 1 THEN NO_LIMIT
    ELSE IF c.fdrAllowTeddy /\ numLiterals <= 48 THEN 3
    ELSE IF c.fdrAllowTeddy /\ c.has_avx2 /\ numLiterals <= 96 THEN 3
    ELSE 9

hwlmFloodProneSuffixLen(numLiterals, c) ==
    IF c.allowNoodle /\ numLiterals <= 1 THEN NO_LIMIT
    ELSE IF c.fdrAllowTeddy /\ numLiterals <= 48 THEN 3
    ELSE IF c.fdrAllowTeddy /\ c.has_avx2 /\ numLiterals <= 96 THEN 3
    ELSE 3

\* The heuristic asked about the batch hwlmBuild has just been given.
flood_batch ==
    /\ pc = "done"
    /\ fl' = <<[n |-> Len(lits), ret |-> hwlmFloodProneSuffixLen(Len(lits), cc)]>>
    /\ pc' = "flood"
    /\ UNCHANGED <<build, lits, cc, locals, sz>>

\* The heuristic asked about any count under any configuration.
flood_count ==
    /\ pc = "idle"
    /\ \E n \in FloodCounts, c \in CompileContext :
          /\ cc' = c
          /\ fl' = <<[n |-> n, ret |-> hwlmFloodProneSuffixLen(n, c)]>>
    /\ pc' = "flood"
    /\ UNCHANGED <<build, lits, locals, sz>>

\* The caller is finished with the results; the next call starts afresh.
reset ==
    /\ pc \in {"done", "sized", "flood"}
    /\ pc' = "idle"
    /\ lits' = <<>>
    /\ cc' = NoCc
    /\ i' = 0
    /\ total_chars' = 0
    /\ engType' = 0
    /\ engSize' = 0
    /\ eng' = NULL
    /\ invoked' = <<>>
    /\ thrown' = NULL
    /\ allocated' = <<>>
    /\ h' = NULL
    /\ sz' = NULL
    /\ fl' = NULL
    /\ UNCHANGED build

Next ==
    \/ hwlmBuild_enter
    \/ hwlmBuild_count
    \/ hwlmBuild_lit
    \/ hwlmBuild_validated
    \/ hwlmBuild_noodle
    \/ hwlmBuild_fdr
    \/ hwlmBuild_package
    \/ hwlmSize_built
    \/ hwlmSize_foreign
    \/ flood_batch
    \/ flood_count
    \/ reset

Spec == Init /\ [][Next]_vars

TypeOK ==
    /\ pc \in {"idle", "L107", "L113", "L140", "L159", "done", "sized", "flood"}
    /\ Len(invoked) <= 1
    /\ Len(allocated) <= 1

\* ------------------------------------------------- vocabulary of the claims
\* A hwlmBuild call on the batch lits has run to its end.
BuildDone == lits # <<>> /\ pc \in {"done", "sized", "flood"}

RECURSIVE SumLen(_, _)
\* Sum of the pattern lengths of the first k literals of ls.
SumLen(ls, k) == IF k = 0 THEN 0 ELSE SumLen(ls, k - 1) + Len(ls[k].s)

CountOk == Len(lits) <= cc.limitLiteralCount
LengthsOk == \A k \in 1..Len(lits) : Len(lits[k].s) <= cc.limitLiteralLength
CharsOk == SumLen(lits, Len(lits)) <= cc.limitLiteralMatcherChars
HasReserved == \E k \in 1..Len(lits) : lits[k].id = RESERVED_ID
\* The literals at which, by the batch alone, a check of the loop must fail.
Over == {k \in 1..Len(lits) : SumLen(lits, k) > cc.limitLiteralMatcherChars}
Reserved == {k \in 1..Len(lits) : lits[k].id = RESERVED_ID}
Min(S) == CHOOSE k \in S : \A j \in S : k <= j
\* The batch passes every check of lines 106-130.
GuardPasses == CountOk /\ LengthsOk /\ CharsOk /\ ~HasReserved

Raised(what, line) == thrown = <<[what |-> what, line |-> line]>>
ReturnedBlob == thrown = NULL /\ h # NULL
ReturnedNull == thrown = NULL /\ h = NULL
AlignedHeader == ROUNDUP_CL(sizeofHWLM)
EngineTags == {HWLM_ENGINE_NOOD, HWLM_ENGINE_FDR}

\* C1 (as stated): every non-empty batch within all configured limits (and
\* free of the reserved id) yields a non-null blob whose hwlmSize is
\* positive, whatever the builder returned.
C1_Original ==
    (BuildDone /\ GuardPasses /\ (eng # NULL => engSize <= cc.limitLiteralMatcherSize))
        => (ReturnedBlob /\ hwlmSize(h[1]).ret > 0)

\* C1 (amended): for a non-empty batch that passes the guard, hwlmBuild
\* returns a non-null blob with hwlmSize > 0 when the selected builder
\* returned a payload no larger than limitLiteralMatcherSize, and returns
\* null, without error, when the builder returned an empty result.
C1_Amended ==
    (BuildDone /\ GuardPasses) =>
        /\ Len(invoked) = 1
        /\ eng = NULL => ReturnedNull
        /\ (eng # NULL /\ engSize <= cc.limitLiteralMatcherSize) =>
              (ReturnedBlob /\ hwlmSize(h[1]).ret > 0)
        /\ pc = "sized" => sz[1].ret > 0

C1_Witness ==
    /\ pc = "sized" /\ lits # <<>> /\ GuardPasses
    /\ engSize = cc.limitLiteralMatcherSize
    /\ ReturnedBlob /\ sz[1].ret > 0

\* C2: once the guard is passed exactly one builder is invoked, the noodle
\* builder if and only if allowNoodle holds, the batch has one literal and
\* that literal has an empty msk; the tag names the builder invoked.
C2_Selection ==
    (lits # <<>> /\ pc \in {"L159", "done", "sized", "flood"} /\ GuardPasses) =>
        /\ Len(invoked) = 1
        /\ invoked[1] \in {"noodBuildTable", "fdrBuildTable"}
        /\ invoked[1] = "noodBuildTable" <=>
              (cc.allowNoodle /\ Len(lits) = 1 /\ lits[1].msk = <<>>)
        /\ engType = (IF invoked[1] = "noodBuildTable" THEN HWLM_ENGINE_NOOD
                                                         ELSE HWLM_ENGINE_FDR)
        /\ h # NULL => h[1].type = engType

C2_Witness ==
    /\ BuildDone /\ GuardPasses /\ ReturnedBlob
    /\ cc.allowNoodle /\ Len(lits) = 1 /\ lits[1].msk # <<>>
    /\ invoked = <<"fdrBuildTable">> /\ h[1].type = HWLM_ENGINE_FDR

\* C3: hwlmSize of a blob hwlmBuild returned equals the size it was
\* allocated with, ROUNDUP_CL(sizeof(HWLM)) + engSize, for both tags.
C3_RoundTrip ==
    (pc = "sized" /\ lits # <<>>) =>
        /\ sz[1].h = h[1]
        /\ allocated = <<AlignedHeader + engSize>>
        /\ sz[1].ret = allocated[1]

C3_Witness ==
    /\ pc = "sized" /\ lits # <<>> /\ sizeofHWLM < AlignedHeader
    /\ h[1].type = HWLM_ENGINE_NOOD /\ sz[1].ret = AlignedHeader + engSize

\* C4: too many literals always ends in ResourceLimitError; a batch that
\* fails the count, length or aggregate check never has a builder invoked;
\* a builder is invoked only once the whole loop has run without error.
C4_GuardFirst ==
    /\ (BuildDone /\ ~CountOk) => (Raised("ResourceLimitError", 108) /\ invoked = <<>>)
    /\ (lits # <<>> /\ ~(CountOk /\ LengthsOk /\ CharsOk)) => invoked = <<>>
    /\ (BuildDone /\ ~(CountOk /\ LengthsOk /\ CharsOk)) => (thrown # NULL /\ h = NULL)
    /\ invoked # <<>> =>
          (GuardPasses /\ i = Len(lits) + 1 /\ total_chars = SumLen(lits, Len(lits)))

C4_Witness ==
    /\ BuildDone /\ ~CountOk /\ LengthsOk /\ CharsOk /\ ~HasReserved
    /\ Raised("ResourceLimitError", 108) /\ invoked = <<>>

\* C5 (as stated, for a build in which the throw of line 128 is compiled
\* to be reached): a batch holding the reserved id fails with CompileError
\* whatever its count, lengths and aggregate length.
C5_Original ==
    (ndebug /\ BuildDone /\ HasReserved) => Raised("CompileError", 128)

\* C5 (amended): a batch holding the reserved id always fails, with no
\* builder invoked and no blob.  The failure is the internal error of
\* lines 127-128 exactly when the count is within its limit and every
\* literal up to and including the first one with the reserved id passes
\* the length and aggregate checks; otherwise it is ResourceLimitError.
C5_Amended ==
    (BuildDone /\ HasReserved) =>
        LET r == Min(Reserved)
            before == /\ CountOk
                      /\ \A k \in 1..r : Len(lits[k].s) <= cc.limitLiteralLength
                      /\ SumLen(lits, r) <= cc.limitLiteralMatcherChars
        IN  /\ thrown # NULL /\ h = NULL /\ invoked = <<>> /\ allocated = <<>>
            /\ before => (IF ndebug THEN Raised("CompileError", 128)
                                    ELSE Raised("assert", 127))
            /\ ~before => thrown[1].what = "ResourceLimitError"

C5_Witness ==
    /\ BuildDone /\ ndebug /\ Len(lits) = MaxLits /\ Reserved = {MaxLits}
    /\ Raised("CompileError", 128)

\* C6 (as stated): with the count and every length within their limits, a
\* batch whose summed lengths exceed limitLiteralMatcherChars fails with
\* ResourceLimitError, raised at the first literal at which the running
\* sum exceeds the budget.
C6_Original ==
    (BuildDone /\ CountOk /\ LengthsOk /\ ~CharsOk) =>
        (Raised("ResourceLimitError", 121) /\ i = Min(Over))

\* C6 (amended): the same, provided no literal before the first one at
\* which the running sum exceeds the budget uses the reserved id.
C6_Amended ==
    (BuildDone /\ CountOk /\ LengthsOk /\ ~CharsOk
       /\ \A k \in Reserved : k >= Min(Over)) =>
        /\ Raised("ResourceLimitError", 121)
        /\ i = Min(Over)
        /\ total_chars = SumLen(lits, i)
        /\ invoked = <<>>

C6_Witness ==
    /\ BuildDone /\ CountOk /\ LengthsOk /\ ~CharsOk
    /\ Min(Over) = 2 /\ Reserved = {2}
    /\ Raised("ResourceLimitError", 121) /\ i = 2

\* C7: a finished hwlmBuild has raised an error with nothing allocated, or
\* returned null because the builder returned empty, or returned a whole
\* blob: engine tag, size = aligned header + payload, payload in
\* 1..limitLiteralMatcherSize.  No blob exists before the call is over, and
\* an oversized payload always gives ResourceLimitError and no allocation.
C7_Outcomes ==
    /\ ~BuildDone => (h = NULL /\ allocated = <<>> /\ thrown = NULL)
    /\ BuildDone =>
          /\ \/ thrown # NULL /\ h = NULL /\ allocated = <<>>
             \/ ReturnedNull /\ allocated = <<>>
             \/ /\ ReturnedBlob
                /\ h[1].type \in EngineTags
                /\ allocated = <<AlignedHeader + h[1].data.size>>
                /\ engSize = h[1].data.size
                /\ 0 < engSize /\ engSize <= cc.limitLiteralMatcherSize
          /\ ReturnedNull <=> (invoked # <<>> /\ eng = NULL)
          /\ (eng # NULL /\ engSize > cc.limitLiteralMatcherSize) =>
                (Raised("ResourceLimitError", 165) /\ h = NULL /\ allocated = <<>>)

C7_Witness ==
    /\ BuildDone /\ eng # NULL /\ engSize > cc.limitLiteralMatcherSize
    /\ Raised("ResourceLimitError", 165) /\ allocated = <<>>

\* C8: hwlmFloodProneSuffixLen returns NO_LIMIT exactly when allowNoodle
\* holds and the count is at most 1, and 3 otherwise; 3 for 200 literals
\* under any flags.
C8_Flood ==
    pc = "flood" =>
        /\ fl[1].ret = (IF cc.allowNoodle /\ fl[1].n <= 1 THEN NO_LIMIT ELSE 3)
        /\ fl[1].ret = NO_LIMIT <=> (cc.allowNoodle /\ fl[1].n <= 1)
        /\ fl[1].n = 200 => fl[1].ret = 3

C8_Witness ==
    /\ pc = "flood" /\ fl[1].n = 97 /\ cc.fdrAllowTeddy /\ cc.has_avx2
    /\ cc.allowNoodle /\ fl[1].ret = 3

\* C9: hwlmSize returns 0 for an unrecognised tag, calling no engine size
\* function, and 0 when the engine's size function reports 0; otherwise
\* it returns aligned header + reported size, more than the header.
C9_SizeDefensive ==
    pc = "sized" =>
        LET b == sz[1].h
        IN  /\ b.type \notin EngineTags => (sz[1].ret = 0 /\ sz[1].calls = <<>>)
            /\ (b.type \in EngineTags /\ b.data.size = 0) => sz[1].ret = 0
            /\ (b.type \in EngineTags /\ b.data.size > 0) =>
                  /\ sz[1].ret = AlignedHeader + b.data.size
                  /\ sz[1].ret > AlignedHeader
                  /\ Len(sz[1].calls) = 1
            /\ b.type = HWLM_ENGINE_NOOD => sz[1].calls = <<"noodSize">>
            /\ b.type = HWLM_ENGINE_FDR => sz[1].calls = <<"fdrSize">>

C9_Witness ==
    /\ pc = "sized" /\ lits = <<>>
    /\ sz[1].h.type = HWLM_ENGINE_FDR /\ sz[1].h.data.size = 0 /\ sz[1].ret = 0

====
